---- MODULE Spec2Model ----
(***************************************************************************)
(* The pCloudy MCP server: the API client (src/src/pcloudy_api.py), its    *)
(* response helper (src/src/utils.py) and the tool adapter                 *)
(* (src/src/mcp_tools.py, registered in src/main.py).                      *)
(*                                                                         *)
(* A tool call is one action.  The client methods are operators that take  *)
(* the state s the call runs in and yield the set of outcomes [s, exc,     *)
(* val] the call can end in: s the state afterwards, exc the exception it  *)
(* raised (NoExc when it returned) and val the value it returned.  The     *)
(* remote service answers every HTTP request with any response of          *)
(* Responses, after any delay the clock's instants and the transport's     *)
(* timeout allow.                                                          *)
(***************************************************************************)
EXTENDS Integers, Sequences, FiniteSets, TLC

VARIABLES
    auth_token,       \* PCloudyAPI.auth_token
    token_timestamp,  \* PCloudyAPI.token_timestamp
    rid,              \* PCloudyAPI.rid
    now,              \* time.time()
    drive,            \* remote: the file names in the user's cloud drive
    inventory,        \* remote: the device descriptors the devices endpoint lists
    last,             \* the last tool call: its arguments, requests and result
    tasks,            \* the tool calls in flight: each coroutine's position
    wire              \* the requests and replies of the calls in flight

vars == <<auth_token, token_timestamp, rid, now, drive, inventory, last,
          tasks, wire>>

----------------------------------------------------------------------------
(* Bounds of the model *)

MaxEpoch == 2     \* the clock runs to MaxEpoch refresh thresholds
MaxPathLen == 2   \* characters of a file path argument
MaxNameLen == 2   \* characters of a device name argument
MaxDevices == 2   \* descriptors in a device listing
MaxCalls == 2     \* tool calls in flight together

(* Program constants *)

TOKEN_REFRESH_THRESHOLD == 3600
REQUEST_TIMEOUT == 300

----------------------------------------------------------------------------
(* Values *)

None == "None"
NoTime == -1

\* Python truthiness of an optional string / an optional float
Truthy(x) == x # None /\ x # ""
TruthyTime(t) == t # NoTime /\ t # 0

\* The service issues a new token at every authentication and a reservation
\* id per booked device.
Token(t) == "tok" \o ToString(t)
RidOf(device_id) == "rid" \o device_id
Rids == {RidOf("1"), RidOf("2")}

\* The instants the clock is observed at: just before, at and just after
\* each multiple of the refresh threshold.
Offsets == {-1, 0, 1}
TimePoints ==
    {k * TOKEN_REFRESH_THRESHOLD + j : k \in 1..MaxEpoch, j \in Offsets}

\* An HTTP request returns (or fails) within the transport's timeout.
Completion(t) == {u \in TimePoints : t <= u /\ u <= t + REQUEST_TIMEOUT}

Min(S) == CHOOSE x \in S : \A y \in S : x <= y
Max(S) == CHOOSE x \in S : \A y \in S : y <= x
SeqsUpTo(S, n) == UNION {[1..k -> S] : k \in 0..n}

\* str.strip(c): the string without its leading and trailing characters c
Strip(str, c) ==
    LET keep == {i \in 1..Len(str) : str[i] # c}
    IN  IF keep = {} THEN <<>> ELSE SubSeq(str, Min(keep), Max(keep))

\* str.lower()
LowerChar(c) == CASE c = "G" -> "g" [] c = "S" -> "s" [] OTHER -> c
Lower(str) == [i \in 1..Len(str) |-> LowerChar(str[i])]

\* needle in hay
Contains(hay, needle) ==
    \E i \in 0..(Len(hay) - Len(needle)) :
        SubSeq(hay, i + 1, i + Len(needle)) = needle

\* File paths: strings over a quote, an apostrophe, a separator and a letter.
DQ == "\""
SQ == "'"
PathChars == {DQ, SQ, "/", "a"}
Paths == SeqsUpTo(PathChars, MaxPathLen)
LocalFiles == {<<"a">>, <<"/", "a">>}   \* the regular files of the host

\* os.path.isfile, os.path.basename
isfile(path) == path \in LocalFiles
basename(path) ==
    LET seps == {i \in 1..Len(path) : path[i] = "/"}
    IN  IF seps = {} THEN path ELSE SubSeq(path, Max(seps) + 1, Len(path))

\* Device names and listings
NameChars == {"G", "s", " "}
Names == SeqsUpTo(NameChars, MaxNameLen)
ModelNames == {<<"G", "s">>, <<"s", "g">>}
Listings ==
    UNION {{[i \in 1..k |-> [id |-> ToString(i), model |-> f[i][1],
                              available |-> f[i][2]]] :
               f \in [1..k -> ModelNames \X BOOLEAN]} : k \in 0..MaxDevices}

Exc(type, msg) == [type |-> type, msg |-> msg]
NoExc == Exc("none", "")
Raised(o) == o.exc # NoExc
NoVal == [none |-> TRUE]

\* The tool layer's response envelope.  Its text is a format string (fmt)
\* with the substituted string (msg) and the substituted names (names).
Envelope(isError, fmt, msg, names) ==
    [isError |-> isError, fmt |-> fmt, msg |-> msg, names |-> names]
NoEnvelope == Envelope(FALSE, "", "", <<>>)

\* The state a call runs in.  sent collects the HTTP requests it makes, each
\* with the reply it got; op is the client operation in progress, with the
\* instant it started at and the token it found.
NoOp == [name |-> "none", start |-> 0, tok |-> None, ts |-> NoTime]
World ==
    [auth_token |-> auth_token, token_timestamp |-> token_timestamp,
     rid |-> rid, now |-> now, drive |-> drive, inventory |-> inventory,
     sent |-> <<>>, op |-> NoOp]

\* Entry to and return from a method of PCloudyAPI called by a tool
Enter(s, name) ==
    [s EXCEPT !.op = [name |-> name, start |-> s.now, tok |-> s.auth_token,
                      ts |-> s.token_timestamp]]
Leave(outcomes) == {[o EXCEPT !.s.op = NoOp] : o \in outcomes}

----------------------------------------------------------------------------
(* The remote service, as seen through httpx.Client *)

\* What a request can come back with: "transport" is client.get/post raising
\* httpx.RequestError, "status" an HTTP error status, "badjson" a body that
\* is not JSON, "noresult" JSON without the result wrapper, "ok" a wrapped
\* payload.
FailureKinds == {"transport", "status", "badjson", "noresult"}
Failures == {[kind |-> k, result |-> NoVal] : k \in FailureKinds}

Payloads(endpoint, s, arg) ==
    CASE endpoint = "access" ->
           {[token |-> Token(s.now)], [token |-> None]}
      [] endpoint = "devices" ->
           {[models |-> s.inventory]}
      [] endpoint = "book_device" ->
           {[rid |-> RidOf(arg[1])], [rid |-> None]}
      [] endpoint = "content" ->
           {[isdict |-> TRUE, files |-> s.drive],
            [isdict |-> FALSE, files |-> {}]}
      [] endpoint = "upload_file" ->
           {[file |-> f] : f \in {arg, <<>>}}
      [] endpoint = "execute_adb" ->
           {[isdict |-> TRUE, output |-> x] : x \in {"out", None}}
             \cup {[isdict |-> FALSE, output |-> None]}
      [] endpoint = "capture_device_screenshot" ->
           {[filename |-> f, dir |-> d] :
               f \in {"shot.png", "", None}, d \in {"abc123", "", None}}
      [] endpoint = "get_device_url" ->
           {[URL |-> u] : u \in {"https://device.pcloudy.com/device/x", None}}
      [] OTHER ->
           {[code |-> 200]}

Responses(endpoint, s, arg) ==
    Failures \cup {[kind |-> "ok", result |-> p] : p \in Payloads(endpoint, s, arg)}

\* The requests of every endpoint but access carry the session token.
CarriesToken(endpoint) == endpoint # "access"

Age(s) ==
    IF s.token_timestamp = NoTime THEN NoTime ELSE s.now - s.token_timestamp

\* The drive after a request: an upload the service answered with a success
\* status has stored the file.
Stored(files, endpoint, arg, resp) ==
    IF endpoint = "upload_file" /\ resp.kind \notin {"transport", "status"}
    THEN files \cup {arg} ELSE files

\* self.client.get / self.client.post: the request leaves now with the token
\* the client holds, and the response arrives at a later instant.
Http(s, endpoint, arg) ==
    LET req == [endpoint |-> endpoint, token |-> s.auth_token,
                age |-> Age(s), at |-> s.now, arg |-> arg, op |-> s.op]
    IN  {[s |-> [s EXCEPT !.now = u,
                          !.drive = Stored(@, endpoint, arg, r),
                          !.sent = Append(@, [req |-> req, reply |-> r,
                                              done |-> u])],
          resp |-> r] :
            r \in Responses(endpoint, s, arg), u \in Completion(s.now)}

\* response.raise_for_status()
raise_for_status(resp) ==
    IF resp.kind = "transport" THEN Exc("RequestError", "ConnectError")
    ELSE IF resp.kind = "status" THEN Exc("HTTPStatusError", "Server error 500")
    ELSE NoExc

\* utils.parse_response: the exception it raises, NoExc when it returns
\* data["result"]
parse_response(resp) ==
    IF resp.kind = "badjson" THEN Exc("ValueError", "Invalid JSON response")
    ELSE IF resp.kind = "noresult" THEN Exc("ValueError", "Invalid response format")
    ELSE NoExc

\* A request followed by raise_for_status and parse_response, as every
\* method but get_device_page_url does it.
Request(s, endpoint, arg) ==
    {LET e1 == raise_for_status(h.resp)
         e2 == IF e1 # NoExc THEN e1 ELSE parse_response(h.resp)
     IN  [s |-> h.s, exc |-> e2,
          val |-> IF e2 # NoExc THEN NoVal ELSE h.resp.result] :
        h \in Http(s, endpoint, arg)}

----------------------------------------------------------------------------
(* PCloudyAPI *)

authenticate(s) ==
    {IF Raised(r) THEN r
     ELSE LET s1 == [r.s EXCEPT !.auth_token = r.val.token]
          IN  IF ~Truthy(s1.auth_token)
              THEN [s |-> s1, val |-> NoVal,
                    exc |-> Exc("ValueError",
                                "Authentication failed: No token received")]
              ELSE [s |-> [s1 EXCEPT !.token_timestamp = s1.now],
                    exc |-> NoExc, val |-> NoVal] :
        r \in Request(s, "access", <<>>)}

\* Fault: the age of the token is not looked at.
check_token_presence(s) ==
    IF ~Truthy(s.auth_token) THEN authenticate(s)
    ELSE {[s |-> s, exc |-> NoExc, val |-> NoVal]}

check_token_validity(s) ==
    IF ~Truthy(s.auth_token) THEN authenticate(s)
    ELSE IF TruthyTime(s.token_timestamp)
            /\ (s.now - s.token_timestamp) > TOKEN_REFRESH_THRESHOLD
         THEN authenticate(s)
         ELSE {[s |-> s, exc |-> NoExc, val |-> NoVal]}

\* The shape of get_devices_list, book_device, execute_adb, capture_screenshot
\* (up to its result) and install_and_launch_app: ensure a token, post, parse;
\* both except clauses re-raise.
Authenticated(s, endpoint, arg) ==
    UNION {IF Raised(c) THEN {c} ELSE Request(c.s, endpoint, arg) :
              c \in check_token_validity(s)}

get_devices_list(s) ==
    Leave(Authenticated(Enter(s, "get_devices_list"), "devices", <<>>))

book_device(s, device_id) ==
    Leave(Authenticated(Enter(s, "book_device"), "book_device", <<device_id>>))

execute_adb(s, r, adb_command) ==
    Leave(Authenticated(Enter(s, "execute_adb"), "execute_adb", <<r>>))

install_and_launch_app(s, r, filename) ==
    Leave(Authenticated(Enter(s, "install_and_launch_app"), "install_app", <<r>>))

Returns(s, val) == [s |-> s, exc |-> NoExc, val |-> val]

list_cloud_files(s) ==
    UNION {IF Raised(c) THEN {Returns(c.s, [files |-> {}])}
           ELSE {IF Raised(r) THEN Returns(r.s, [files |-> {}])
                 ELSE Returns(r.s, [files |-> IF r.val.isdict
                                               THEN r.val.files ELSE {}]) :
                    r \in Request(c.s, "content", <<>>)} :
              c \in check_token_validity(s)}

\* upload_file from the POST on, with the file name not in the listing
upload_post(s, file_name) ==
    {IF Raised(r) THEN r
     ELSE IF r.val.file = <<>>
          THEN Returns(r.s, Envelope(TRUE, "Failed to get uploaded file name",
                                     "", <<>>))
          ELSE Returns(r.s, Envelope(FALSE, "File '{}' uploaded successfully",
                                     "", <<r.val.file>>)) :
        r \in Request(s, "upload_file", file_name)}

\* Fault: the cloud listing is not consulted before the POST.
upload_file_unconditional(s, path) ==
    LET file_path == Strip(Strip(path, DQ), SQ)
        file_name == basename(file_path)
    IN  Leave(UNION {IF Raised(c) THEN {c}
               ELSE IF ~isfile(file_path)
               THEN {Returns(c.s, Envelope(TRUE, "Provided path is not a file: {}",
                                           "", <<file_path>>))}
               ELSE UNION {upload_post(l.s, file_name) :
                              l \in list_cloud_files(c.s)} :
                  c \in check_token_validity(Enter(s, "upload_file"))})

upload_file(s, path) ==
    LET file_path == Strip(Strip(path, DQ), SQ)
        file_name == basename(file_path)
    IN  Leave(UNION {IF Raised(c) THEN {c}
               ELSE IF ~isfile(file_path)
               THEN {Returns(c.s, Envelope(TRUE, "Provided path is not a file: {}",
                                           "", <<file_path>>))}
               ELSE UNION {IF file_name \in l.val.files
                           THEN {Returns(l.s, Envelope(FALSE,
                                    "File '{}' already exists in your pCloudy cloud drive.",
                                    "", <<file_name>>))}
                           ELSE upload_post(l.s, file_name) :
                              l \in list_cloud_files(c.s)} :
                  c \in check_token_validity(Enter(s, "upload_file"))})

\* Fault: the two path segments change places.
ScreenshotUrl_swapped(dir, filename) ==
    "https://device.pcloudy.com/recent/" \o filename \o "/" \o dir

\* f"https://device.pcloudy.com/recent/{dir_}/{filename}"
ScreenshotUrl(dir, filename) ==
    "https://device.pcloudy.com/recent/" \o dir \o "/" \o filename

capture_screenshot(s, r) ==
    {IF Raised(o) THEN o
     ELSE IF ~Truthy(o.val.filename) \/ ~Truthy(o.val.dir)
          THEN Returns(o.s, Envelope(TRUE,
                   "Failed to get screenshot file URL. API response: {}", "", <<>>))
          ELSE Returns(o.s, [filename |-> o.val.filename, dir |-> o.val.dir,
                             file |-> ScreenshotUrl(o.val.dir, o.val.filename)]) :
        o \in Leave(Authenticated(Enter(s, "capture_screenshot"),
                                  "capture_device_screenshot", <<r>>))}

\* the except clauses of release_device
release_except(o) ==
    IF o.exc.type = "RequestError" THEN o
    ELSE Returns(o.s, Envelope(TRUE, "Error releasing device: {}", o.exc.msg, <<>>))

release_device(s, r) ==
    {IF Raised(o) THEN release_except(o)
     ELSE Returns(o.s, Envelope(FALSE, "Device with RID {} released successfully",
                                r, <<>>)) :
        o \in Leave(Authenticated(Enter(s, "release_device"),
                                  "release_device", <<r>>))}

get_device_page_url(s, r) ==
    LET failed(st, e) ==
            Returns(st, Envelope(TRUE, "Error getting device page URL: {}",
                                 e.msg, <<>>))
    IN  Leave(UNION {IF Raised(c) THEN {failed(c.s, c.exc)}
               ELSE {IF raise_for_status(h.resp) # NoExc
                     THEN failed(h.s, raise_for_status(h.resp))
                     ELSE IF h.resp.kind = "badjson"
                     THEN failed(h.s, Exc("JSONDecodeError", "Expecting value"))
                     ELSE IF h.resp.kind = "noresult" \/ ~Truthy(h.resp.result.URL)
                     THEN Returns(h.s, Envelope(TRUE,
                              "Device page URL not found. API response: {}", "", <<>>))
                     ELSE Returns(h.s, Envelope(FALSE, "Device page URL: {}",
                                                h.resp.result.URL, <<>>)) :
                        h \in Http(c.s, "get_device_url", <<r>>)} :
                  c \in check_token_validity(Enter(s, "get_device_page_url"))})

----------------------------------------------------------------------------
(* The tool adapter (mcp_tools.py) *)

\* What a tool call hands to its caller: an envelope, or an exception that
\* escaped it.
Return(env) == [raised |-> FALSE, exc |-> NoExc, env |-> env]
Escape(e) == [raised |-> TRUE, exc |-> e, env |-> NoEnvelope]

\* Fault: the clause catches httpx.RequestError alone.
except_RequestError(fmt, e) ==
    IF e.type = "RequestError"
    THEN Return(Envelope(TRUE, fmt, e.msg, <<>>)) ELSE Escape(e)

\* except Exception as e: return the error envelope with str(e)
except_Exception(fmt, e) == Return(Envelope(TRUE, fmt, e.msg, <<>>))

\* A finished tool call: the state, what the tool handed back, and how the
\* client operation it made last ended.
Done(o, out) == [s |-> o.s, out |-> out, client |-> [exc |-> o.exc, val |-> o.val]]

IsAvailable(d) == d.available
ModelsOf(devices) == [i \in 1..Len(devices) |-> devices[i].model]

\* Fault: the listing is not filtered.
list_all_devices(s) ==
    {IF Raised(o) THEN Done(o, except_Exception("Error listing devices: {}", o.exc))
     ELSE IF o.val.models = <<>>
          THEN Done(o, Return(Envelope(TRUE,
                   "No devices are currently available.", "", <<>>)))
          ELSE Done(o, Return(Envelope(FALSE, "Available devices: {}",
                                       "", ModelsOf(o.val.models)))) :
        o \in get_devices_list(s)}

list_available_devices(s) ==
    {IF Raised(o) THEN Done(o, except_Exception("Error listing devices: {}", o.exc))
     ELSE LET devices == o.val.models
              available_devices == ModelsOf(SelectSeq(devices, IsAvailable))
          IN  IF available_devices = <<>>
              THEN Done(o, Return(Envelope(TRUE,
                       "No devices are currently available.", "", <<>>)))
              ELSE Done(o, Return(Envelope(FALSE, "Available devices: {}",
                                           "", available_devices))) :
        o \in get_devices_list(s)}

\* Fault: the availability flag is not looked at.
selected_device_any(devices, device_name) ==
    LET hits == {i \in 1..Len(devices) :
                    Contains(Lower(devices[i].model), device_name)}
    IN  IF hits = {} THEN 0 ELSE Min(hits)

\* next((d for d in devices if d["available"] and device_name in
\* d["model"].lower()), None): the index of the selected device, 0 for None
selected_device(devices, device_name) ==
    LET hits == {i \in 1..Len(devices) :
                    /\ devices[i].available
                    /\ Contains(Lower(devices[i].model), device_name)}
    IN  IF hits = {} THEN 0 ELSE Min(hits)

\* Fault: the booking result is not checked for a rid.
book_selected_unchecked(s, d) ==
    {IF Raised(b)
     THEN Done(b, except_Exception("Error booking device: {}", b.exc))
     ELSE LET b1 == [b EXCEPT !.s.rid = b.val.rid]
          IN  Done(b1, Return(Envelope(FALSE,
                   "Device '{}' booked successfully. RID: {}",
                   b1.s.rid, <<d.model>>))) :
        b \in book_device(s, d.id)}

\* book_device_by_name from api.book_device on
book_selected(s, d) ==
    {IF Raised(b)
     THEN Done(b, except_Exception("Error booking device: {}", b.exc))
     ELSE LET b1 == [b EXCEPT !.s.rid = b.val.rid]
          IN  IF ~Truthy(b1.s.rid)
              THEN Done(b1, Return(Envelope(TRUE, "Failed to get booking ID",
                                            "", <<>>)))
              ELSE Done(b1, Return(Envelope(FALSE,
                       "Device '{}' booked successfully. RID: {}",
                       b1.s.rid, <<d.model>>))) :
        b \in book_device(s, d.id)}

book_device_by_name(s, name) ==
    UNION {IF Raised(o)
           THEN {Done(o, except_Exception("Error booking device: {}", o.exc))}
           ELSE LET devices == o.val.models
                    device_name == Strip(Lower(name), " ")
                    sel == selected_device(devices, device_name)
                IN  IF devices = <<>>
                    THEN {Done(o, Return(Envelope(TRUE, "No devices available",
                                                  "", <<>>)))}
                    ELSE IF sel = 0
                    THEN {Done(o, Return(Envelope(TRUE,
                             "No available device found matching '{}'. Please choose from the available devices.",
                             "", <<device_name>>)))}
                    ELSE book_selected(o.s, devices[sel]) :
              o \in get_devices_list(s)}

mcp_upload_file(s, path) ==
    {IF Raised(o) THEN Done(o, except_Exception("Error uploading file: {}", o.exc))
     ELSE Done(o, Return(o.val)) :
        o \in upload_file(s, path)}

execute_adb_command(s, r, adb_command) ==
    {IF Raised(o)
     THEN Done(o, except_Exception("Error executing ADB command: {}", o.exc))
     ELSE IF ~o.val.isdict
     THEN Done(o, except_Exception("Error executing ADB command: {}",
                   Exc("AttributeError", "object has no attribute 'get'")))
     ELSE Done(o, Return(Envelope(FALSE, "ADB command executed successfully: {}",
                   IF o.val.output = None THEN "No output returned"
                   ELSE o.val.output, <<>>))) :
        o \in execute_adb(s, r, adb_command)}

capture_device_screenshot(s, r) ==
    {IF Raised(o)
     THEN Done(o, except_Exception("Error capturing screenshot: {}", o.exc))
     ELSE IF "file" \notin DOMAIN o.val
     THEN Done(o, Return(Envelope(TRUE, "Failed to get screenshot file URL",
                                  "", <<>>)))
     ELSE Done(o, Return(Envelope(FALSE, "Screenshot captured successfully: {}",
                                  o.val.file, <<>>))) :
        o \in capture_screenshot(s, r)}

mcp_install_and_launch_app(s, r, filename) ==
    {IF Raised(o)
     THEN Done(o, except_Exception("Error installing and launching app: {}", o.exc))
     ELSE Done(o, Return(Envelope(FALSE,
              "App '{}' installed and launched successfully on RID: {}", r, <<>>))) :
        o \in install_and_launch_app(s, r, filename)}

mcp_release_device(s, r) ==
    {IF Raised(o) THEN Done(o, except_Exception("Error releasing device: {}", o.exc))
     ELSE Done(o, Return(Envelope(FALSE,
              "Device with RID {} released successfully", r, <<>>))) :
        o \in release_device(s, r)}

mcp_get_device_page_url(s, r) ==
    {IF Raised(o)
     THEN Done(o, except_Exception("Error generating device page URL: {}", o.exc))
     ELSE Done(o, Return(o.val)) :
        o \in get_device_page_url(s, r)}

----------------------------------------------------------------------------
(* The server (main.py): one action per registered tool *)

\* a tool call the framework has not been handed
NoDevice == [id |-> "", model |-> <<>>]
NoTask ==
    [pc |-> "idle", name |-> <<>>, waiting |-> {}, device |-> NoDevice,
     out |-> NoEnvelope]

Idle ==
    [tool |-> "none", out |-> Return(NoEnvelope),
     client |-> [exc |-> NoExc, val |-> NoVal], sent |-> <<>>,
     start |-> 0, tok0 |-> None, ts0 |-> NoTime, rid0 |-> None,
     drive0 |-> {}, inv0 |-> <<>>,
     name |-> <<>>, isfile |-> FALSE, file_name |-> <<>>, r |-> None]

\* The server takes one call at a time: the next one comes after the caller
\* has the result of this one.
Ready == last = Idle

\* The call d of tool happened in the current state, with the arguments args.
Finish(tool, d, args) ==
    /\ auth_token' = d.s.auth_token
    /\ token_timestamp' = d.s.token_timestamp
    /\ rid' = d.s.rid
    /\ now' = d.s.now
    /\ drive' = d.s.drive
    /\ inventory' = inventory
    /\ last' = [tool |-> tool, out |-> d.out, client |-> d.client,
                sent |-> d.s.sent, start |-> now, tok0 |-> auth_token,
                ts0 |-> token_timestamp, rid0 |-> rid, drive0 |-> drive,
                inv0 |-> inventory, name |-> args.name,
                isfile |-> args.isfile, file_name |-> args.file_name,
                r |-> args.r]
    /\ UNCHANGED <<tasks, wire>>

NoArgs == [name |-> <<>>, isfile |-> FALSE, file_name |-> <<>>, r |-> None]

list_available_devices_tool ==
    /\ Ready
    /\ \E d \in list_available_devices(World) :
           Finish("list_available_devices", d, NoArgs)

book_device_by_name_tool(device_name) ==
    /\ Ready
    /\ \E d \in book_device_by_name(World, device_name) :
            Finish("book_device_by_name", d, [NoArgs EXCEPT !.name = device_name])

upload_file_tool(file_path) ==
    /\ Ready
    /\ \E d \in mcp_upload_file(World, file_path) :
            LET p == Strip(Strip(file_path, DQ), SQ)
            IN  Finish("upload_file", d,
                       [NoArgs EXCEPT !.isfile = isfile(p), !.file_name = basename(p)])

execute_adb_command_tool(r, adb_command) ==
    /\ Ready
    /\ \E d \in execute_adb_command(World, r, adb_command) :
            Finish("execute_adb_command", d, [NoArgs EXCEPT !.r = r])

capture_device_screenshot_tool(r) ==
    /\ Ready
    /\ \E d \in capture_device_screenshot(World, r) :
            Finish("capture_device_screenshot", d, [NoArgs EXCEPT !.r = r])

install_and_launch_app_tool(r, filename) ==
    /\ Ready
    /\ \E d \in mcp_install_and_launch_app(World, r, filename) :
            Finish("install_and_launch_app", d, [NoArgs EXCEPT !.r = r])

release_device_tool(r) ==
    /\ Ready
    /\ \E d \in mcp_release_device(World, r) :
            Finish("release_device", d, [NoArgs EXCEPT !.r = r])

get_device_page_url_tool(r) ==
    /\ Ready
    /\ \E d \in mcp_get_device_page_url(World, r) :
            Finish("get_device_page_url", d, [NoArgs EXCEPT !.r = r])

\* Time passes between two calls.
Tick ==
    /\ Ready
    /\ \E u \in TimePoints : u > now /\ now' = u
    /\ UNCHANGED <<auth_token, token_timestamp, rid, drive, inventory, last,
                   tasks, wire>>

\* The device names and listings of the server's runs
RunNames == {<<" ", "G">>, <<"G", "G">>}
RunListing ==
    <<[id |-> "1", model |-> <<"G", "s">>, available |-> FALSE],
      [id |-> "2", model |-> <<"s", "g">>, available |-> TRUE]>>

\* The caller receives the envelope.
Deliver ==
    /\ ~Ready
    /\ last' = Idle
    /\ UNCHANGED <<auth_token, token_timestamp, rid, now, drive, inventory,
                   tasks, wire>>

Init ==
    /\ auth_token = None
    /\ token_timestamp = NoTime
    /\ rid = None
    /\ now = Min(TimePoints)
    /\ drive \in SUBSET {<<"a">>}
    /\ inventory = RunListing
    /\ last = Idle
    /\ tasks = [c \in 1..MaxCalls |-> NoTask]
    /\ wire = <<>>

Next ==
    \/ Tick
    \/ Deliver
    \/ list_available_devices_tool
    \/ \E device_name \in RunNames : book_device_by_name_tool(device_name)
    \/ \E file_path \in Paths : upload_file_tool(file_path)
    \/ \E r \in Rids : execute_adb_command_tool(r, "cmd")
    \/ \E r \in Rids : capture_device_screenshot_tool(r)
    \/ \E r \in Rids : install_and_launch_app_tool(r, "app.apk")
    \/ \E r \in Rids : release_device_tool(r)
    \/ \E r \in Rids : get_device_page_url_tool(r)

Spec == Init /\ [][Next]_vars

\* The two tools that read the device listing, on every listing and every
\* device name of the bounds, as the first call of a run.
InitMatch ==
    /\ auth_token = None
    /\ token_timestamp = NoTime
    /\ rid = None
    /\ now = Min(TimePoints)
    /\ drive = {}
    /\ inventory \in Listings
    /\ last = Idle
    /\ tasks = [c \in 1..MaxCalls |-> NoTask]
    /\ wire = <<>>

NextMatch ==
    \/ list_available_devices_tool
    \/ \E device_name \in Names : book_device_by_name_tool(device_name)

SpecMatch == InitMatch /\ [][NextMatch]_vars

----------------------------------------------------------------------------
(* Tool calls in flight together.  The framework accepts a call while       *)
(* another is being served; every tool is a coroutine on the one event     *)
(* loop, and none of them awaits anything but the adapter coroutine, which *)
(* calls the blocking client.  A call is followed here from one HTTP       *)
(* request of book_device_by_name to the next.                             *)

Calls == 1..MaxCalls

\* the positions of a handler blocked in self.client.get / self.client.post
Blocked == {"auth_devices", "devices", "auth_book", "book"}

\* Fault: the handler awaits its requests, and the loop is free meanwhile.
holds_loop_never(t) == FALSE

\* A handler that has started keeps the event loop until it returns: it has
\* no await to give it up at.
holds_loop(t) == t.pc \in Blocked

loop_free == \A c \in Calls : ~holds_loop(tasks[c])

\* the conditions of check_token_validity under which it authenticates
must_authenticate(tok, ts, t) ==
    \/ ~Truthy(tok)
    \/ TruthyTime(ts) /\ (t - ts) > TOKEN_REFRESH_THRESHOLD

\* what passes on the wire: a request leaving with the token the client
\* holds ("send"), or a reply ("recv", with the token it brought when it is
\* an access reply)
Event(c, ev, endpoint, token, arg) ==
    [call |-> c, ev |-> ev, endpoint |-> endpoint, token |-> token, arg |-> arg]

\* the exception a reply makes the client raise
ReplyExc(r) ==
    IF raise_for_status(r) # NoExc THEN raise_for_status(r) ELSE parse_response(r)

\* the tool's except clause: the call ends with the error envelope
Failed(t, e) ==
    [t EXCEPT !.pc = "done",
              !.out = except_Exception("Error booking device: {}", e).env]
Ended(t, env) == [t EXCEPT !.pc = "done", !.out = env]

\* The framework accepts a call of book_device_by_name_tool.
Arrive(c, device_name) ==
    /\ tasks[c].pc = "idle"
    /\ tasks' = [tasks EXCEPT ![c] = [NoTask EXCEPT !.pc = "pending",
                                                   !.name = device_name]]
    /\ UNCHANGED <<auth_token, token_timestamp, rid, now, drive, inventory,
                   last, wire>>

\* The loop starts the handler: get_devices_list up to its first request.
\* waiting keeps the calls that were accepted and not started then.
Begin(c) ==
    /\ tasks[c].pc = "pending"
    /\ loop_free
    /\ LET auth == must_authenticate(auth_token, token_timestamp, now)
       IN  /\ tasks' = [tasks EXCEPT
                  ![c].pc = IF auth THEN "auth_devices" ELSE "devices",
                  ![c].waiting = {d \in Calls \ {c} : tasks[d].pc = "pending"}]
           /\ wire' = Append(wire,
                         Event(c, "send", IF auth THEN "access" ELSE "devices",
                               auth_token, <<>>))
    /\ UNCHANGED <<auth_token, token_timestamp, rid, now, drive, inventory, last>>

\* authenticate from the reply on, then the request of the operation that
\* called check_token_validity
RecvAuth(c) ==
    /\ tasks[c].pc \in {"auth_devices", "auth_book"}
    /\ \E r \in Responses("access", World, <<>>), u \in Completion(now) :
         LET e == ReplyExc(r)
             tok == IF e = NoExc THEN r.result.token ELSE auth_token
             ok == e = NoExc /\ Truthy(tok)
             exc == IF e # NoExc THEN e
                    ELSE Exc("ValueError",
                             "Authentication failed: No token received")
             booking == tasks[c].pc = "auth_book"
         IN  /\ now' = u
             /\ auth_token' = tok
             /\ token_timestamp' = IF ok THEN u ELSE token_timestamp
             /\ tasks' = [tasks EXCEPT ![c] =
                             IF ok THEN [@ EXCEPT !.pc = IF booking THEN "book"
                                                         ELSE "devices"]
                             ELSE Failed(@, exc)]
             /\ wire' = wire
                   \o <<Event(c, "recv", "access", IF ok THEN tok ELSE None,
                              <<>>)>>
                   \o IF ~ok THEN <<>>
                      ELSE IF booking
                      THEN <<Event(c, "send", "book_device", tok,
                                   <<tasks[c].device.id>>)>>
                      ELSE <<Event(c, "send", "devices", tok, <<>>)>>
    /\ UNCHANGED <<rid, drive, inventory, last>>

\* get_devices_list from the reply on, the selection, and book_device up to
\* its first request
RecvDevices(c) ==
    /\ tasks[c].pc = "devices"
    /\ \E r \in Responses("devices", World, <<>>), u \in Completion(now) :
         LET e == ReplyExc(r)
             devices == r.result.models
             device_name == Strip(Lower(tasks[c].name), " ")
             sel == selected_device(devices, device_name)
             auth == must_authenticate(auth_token, token_timestamp, u)
             recv == Event(c, "recv", "devices", None, <<>>)
         IN  /\ now' = u
             /\ IF e # NoExc
                THEN /\ tasks' = [tasks EXCEPT ![c] = Failed(@, e)]
                     /\ wire' = Append(wire, recv)
                ELSE IF devices = <<>>
                THEN /\ tasks' = [tasks EXCEPT ![c] = Ended(@,
                            Envelope(TRUE, "No devices available", "", <<>>))]
                     /\ wire' = Append(wire, recv)
                ELSE IF sel = 0
                THEN /\ tasks' = [tasks EXCEPT ![c] = Ended(@,
                            Envelope(TRUE,
                              "No available device found matching '{}'. Please choose from the available devices.",
                              "", <<device_name>>))]
                     /\ wire' = Append(wire, recv)
                ELSE /\ tasks' = [tasks EXCEPT
                            ![c].pc = IF auth THEN "auth_book" ELSE "book",
                            ![c].device = [id |-> devices[sel].id,
                                           model |-> devices[sel].model]]
                     /\ wire' = wire \o <<recv,
                            Event(c, "send",
                                  IF auth THEN "access" ELSE "book_device",
                                  auth_token,
                                  IF auth THEN <<>> ELSE <<devices[sel].id>>)>>
    /\ UNCHANGED <<auth_token, token_timestamp, rid, drive, inventory, last>>

\* book_device from the reply on, and book_device_by_name to its return
RecvBook(c) ==
    /\ tasks[c].pc = "book"
    /\ \E r \in Responses("book_device", World, <<tasks[c].device.id>>),
          u \in Completion(now) :
         LET e == ReplyExc(r)
             got == IF e = NoExc THEN r.result.rid ELSE None
         IN  /\ now' = u
             /\ rid' = IF e = NoExc THEN got ELSE rid
             /\ tasks' = [tasks EXCEPT ![c] =
                   IF e # NoExc THEN Failed(@, e)
                   ELSE IF ~Truthy(got)
                   THEN Ended(@, Envelope(TRUE, "Failed to get booking ID",
                                          "", <<>>))
                   ELSE Ended(@, Envelope(FALSE,
                                  "Device '{}' booked successfully. RID: {}",
                                  got, <<tasks[c].device.model>>))]
             /\ wire' = Append(wire, Event(c, "recv", "book_device", None,
                                           <<tasks[c].device.id>>))
    /\ UNCHANGED <<auth_token, token_timestamp, drive, inventory, last>>

\* The listing and the device names of the calls in flight together: two
\* available devices, which the calls ask for in turn.
LoopListing ==
    <<[id |-> "1", model |-> <<"G", "s">>, available |-> TRUE],
      [id |-> "2", model |-> <<"s", "g">>, available |-> TRUE]>>
LoopName(c) == IF c % 2 = 1 THEN <<"G", "s">> ELSE <<"s", "G">>

\* The client has no token yet, or holds a token that has reached the
\* refresh threshold or has passed it.
InitLoop ==
    /\ \/ /\ auth_token = None /\ token_timestamp = NoTime
          /\ now = Max(TimePoints)
       \/ /\ auth_token = Token(Min(TimePoints))
          /\ token_timestamp = Min(TimePoints)
          /\ now \in {token_timestamp + TOKEN_REFRESH_THRESHOLD, Max(TimePoints)}
    /\ rid = None
    /\ drive = {}
    /\ inventory = LoopListing
    /\ last = Idle
    /\ tasks = [c \in Calls |-> NoTask]
    /\ wire = <<>>

NextLoop ==
    \E c \in Calls :
        \/ Arrive(c, LoopName(c))
        \/ Begin(c)
        \/ RecvAuth(c)
        \/ RecvDevices(c)
        \/ RecvBook(c)

SpecLoop == InitLoop /\ [][NextLoop]_vars

----------------------------------------------------------------------------
(* Properties *)

Sent == last.sent
To(endpoint) == {i \in DOMAIN Sent : Sent[i].req.endpoint = endpoint}
Answered(endpoint) == {i \in To(endpoint) : Sent[i].reply.kind = "ok"}
Env == last.out.env

ErrorFormats ==
    {"Error listing devices: {}", "Error booking device: {}",
     "Error uploading file: {}", "Error executing ADB command: {}",
     "Error capturing screenshot: {}", "Error installing and launching app: {}",
     "Error releasing device: {}", "Error generating device page URL: {}"}

\* C1: every tool call hands back an envelope and never an exception, and
\* when the client operation raised, the envelope is an error whose text
\* carries the exception's message.
C1_ToolsNeverRaise ==
    last.tool # "none" =>
        /\ ~last.out.raised
        /\ Raised(last.client) =>
              /\ Env.isError
              /\ Env.fmt \in ErrorFormats
              /\ Env.msg = last.client.exc.msg

C1_Witness ==
    /\ last.tool = "execute_adb_command"
    /\ last.client.exc.type = "RequestError"
    /\ ~last.out.raised
    /\ Env.isError
    /\ Env.msg = last.client.exc.msg

\* C2: every request that carries the session token carries a non-empty
\* token whose age is below the refresh threshold.
C2_TokenYoungerThanThreshold ==
    \A i \in DOMAIN Sent :
        CarriesToken(Sent[i].req.endpoint) =>
            /\ Truthy(Sent[i].req.token)
            /\ Sent[i].req.age # NoTime
            /\ Sent[i].req.age < TOKEN_REFRESH_THRESHOLD

\* C2, with the boundary granted: no request carries a token older than the
\* refresh threshold.  The POST of upload_file breaks this too.
C2_TokenNotOlderThanThreshold ==
    \A i \in DOMAIN Sent :
        CarriesToken(Sent[i].req.endpoint) =>
            Sent[i].req.age <= TOKEN_REFRESH_THRESHOLD

\* C3: a client operation that starts threshold-1 after the token was
\* acquired makes no access request and sends that token; one that starts
\* threshold+1 after it makes exactly one access request, before its other
\* requests, and a successful one replaces the token and its timestamp.
C3_ReuseAndRefresh ==
    \A i \in DOMAIN Sent :
        LET op == Sent[i].req.op
            mine == {j \in DOMAIN Sent : Sent[j].req.op = op}
            auths == {j \in mine : Sent[j].req.endpoint = "access"}
            a == Sent[Min(mine)]
        IN  (Truthy(op.tok) /\ op.ts # NoTime) =>
              /\ op.start = op.ts + TOKEN_REFRESH_THRESHOLD - 1 =>
                    /\ auths = {}
                    /\ Sent[i].req.token = op.tok
              /\ op.start = op.ts + TOKEN_REFRESH_THRESHOLD + 1 =>
                    /\ auths = {Min(mine)}
                    /\ (a.reply.kind = "ok" /\ Truthy(a.reply.result.token)) =>
                          /\ \A j \in mine \ auths :
                                /\ Sent[j].req.token = a.reply.result.token
                                /\ Sent[j].req.age = Sent[j].req.at - a.done
                          /\ (\A j \in DOMAIN Sent :
                                 j > Min(mine) => Sent[j].req.endpoint # "access") =>
                                /\ auth_token = a.reply.result.token
                                /\ token_timestamp = a.done

C3_Witness ==
    \E i \in To("access") :
        /\ Truthy(Sent[i].req.op.tok)
        /\ Sent[i].req.op.start
             = Sent[i].req.op.ts + TOKEN_REFRESH_THRESHOLD + 1
        /\ Sent[i].reply.kind = "ok"
        /\ Truthy(Sent[i].reply.result.token)
        /\ Len(Sent) > i
        /\ Sent[i + 1].req.token # Sent[i].req.op.tok
        /\ auth_token # Sent[i].req.op.tok

\* The reuse case of C3 happens: an operation started threshold-1 after the
\* acquisition sent its request with the token it found.
C3_ReuseHappens ==
    \E i \in DOMAIN Sent :
        /\ Truthy(Sent[i].req.op.tok)
        /\ Sent[i].req.op.start
             = Sent[i].req.op.ts + TOKEN_REFRESH_THRESHOLD - 1
        /\ Sent[i].req.token = Sent[i].req.op.tok

\* the cloud listing list_cloud_files returned holds the file's base name
ListedInCloud ==
    \E i \in Answered("content") :
        /\ Sent[i].reply.result.isdict
        /\ last.file_name \in Sent[i].reply.result.files

AlreadyExists ==
    Envelope(FALSE, "File '{}' already exists in your pCloudy cloud drive.",
             "", <<last.file_name>>)

\* C4: uploading a regular file whose base name is in the cloud listing
\* sends no upload request and returns the "already exists" success.
C4_NoUploadWhenListed ==
    (last.tool = "upload_file" /\ last.isfile /\ ListedInCloud) =>
        /\ To("upload_file") = {}
        /\ ~last.out.raised
        /\ Env = AlreadyExists

C4_Witness ==
    /\ last.tool = "upload_file"
    /\ last.isfile
    /\ ListedInCloud
    /\ Env = AlreadyExists

\* C5: uploading a path that is not a regular file makes no HTTP request and
\* returns the failure that describes the path.
C5_BadPathMakesNoRequest ==
    (last.tool = "upload_file" /\ ~last.isfile) =>
        /\ Sent = <<>>
        /\ Env.isError
        /\ Env.fmt = "Provided path is not a file: {}"

\* C6: the client's release_device never raises: it returns a success
\* envelope when the remote call succeeded and an error envelope otherwise.
C6_ReleaseNeverPropagates ==
    last.tool = "release_device" =>
        /\ ~Raised(last.client)
        /\ last.client.val.isError = (Answered("release_device") = {})

\* C7: the release tool reports success only when the remote release
\* succeeded; when the client's release ended in failure the tool's envelope
\* is an error and not "released successfully".
C7_ReleaseToolReportsFailure ==
    last.tool = "release_device" =>
        /\ ~Env.isError => Answered("release_device") # {}
        /\ (Raised(last.client) \/ last.client.val.isError) =>
              /\ Env.isError
              /\ Env.fmt # "Device with RID {} released successfully"

\* the name as the tool compares it, and the comparison
Trimmed(name) == Strip(name, " ")
ContainsIgnoringCase(model, name) ==
    \E k \in 0..(Len(model) - Len(name)) :
        \A m \in 1..Len(name) : LowerChar(model[k + m]) = LowerChar(name[m])
Matches(i) ==
    /\ last.inv0[i].available
    /\ ContainsIgnoringCase(last.inv0[i].model, Trimmed(last.name))
FirstMatch ==
    {i \in 1..Len(last.inv0) : Matches(i) /\ \A j \in 1..(i - 1) : ~Matches(j)}

\* C8: book_device_by_name books the first device of the listing that is
\* available and whose model contains the trimmed name, case ignored: every
\* booking request carries that device's id, and with such a device listed
\* the tool goes on to book it.
C8_BooksFirstMatch ==
    last.tool = "book_device_by_name" =>
        /\ \A k \in To("book_device") :
              \E i \in FirstMatch : Sent[k].req.arg = <<last.inv0[i].id>>
        /\ (Answered("devices") # {} /\ FirstMatch # {}) =>
              \/ To("book_device") # {}
              \/ Sent[Len(Sent)].req.endpoint = "access"

C8_Witness ==
    /\ last.tool = "book_device_by_name"
    /\ Len(last.inv0) >= 2
    /\ ~last.inv0[1].available
    /\ ContainsIgnoringCase(last.inv0[1].model, Trimmed(last.name))
    /\ Trimmed(last.name) # last.name
    /\ Lower(last.name) # last.name
    /\ \E k \in To("book_device") : Sent[k].req.arg = <<last.inv0[2].id>>

\* C9: with no devices listed, and separately with no available device
\* matching, the tool fails without a booking request; a booking result
\* without a rid is a failure; success means a matching available device
\* was booked, a rid came back and the message carries it.
C9_BookingOutcomes ==
    last.tool = "book_device_by_name" =>
        /\ ~last.out.raised
        /\ (Answered("devices") # {} /\ last.inv0 = <<>>) =>
              /\ Env.isError
              /\ Env.fmt = "No devices available"
              /\ To("book_device") = {}
        /\ (Answered("devices") # {} /\ last.inv0 # <<>> /\ FirstMatch = {}) =>
              /\ Env.isError
              /\ Env.fmt = "No available device found matching '{}'. Please choose from the available devices."
              /\ To("book_device") = {}
        /\ (\E k \in Answered("book_device") :
               ~Truthy(Sent[k].reply.result.rid)) => Env.isError
        /\ ~Env.isError =>
              \E k \in Answered("book_device") :
                  /\ Truthy(Sent[k].reply.result.rid)
                  /\ Env.msg = Sent[k].reply.result.rid
                  /\ \E i \in 1..Len(last.inv0) :
                        Matches(i) /\ Sent[k].req.arg = <<last.inv0[i].id>>

C9_Witness ==
    /\ last.tool = "book_device_by_name"
    /\ ~Env.isError
    /\ \E k \in Answered("book_device") : Env.msg = Sent[k].reply.result.rid

\* the positions of the available devices, and the n-th of them
AvailableAt == {i \in 1..Len(last.inv0) : last.inv0[i].available}
NthAvailable(n) ==
    CHOOSE i \in AvailableAt : Cardinality({j \in AvailableAt : j <= i}) = n

\* C10: when the devices request succeeds, the list tool fails with "No
\* devices are currently available." if no listed device is available, and
\* otherwise succeeds with exactly the models of the available devices, in
\* listing order.
C10_ListsAvailableOnly ==
    (last.tool = "list_available_devices" /\ Answered("devices") # {}) =>
        IF AvailableAt = {}
        THEN Env = Envelope(TRUE, "No devices are currently available.", "", <<>>)
        ELSE /\ ~Env.isError
             /\ Env.fmt = "Available devices: {}"
             /\ Len(Env.names) = Cardinality(AvailableAt)
             /\ \A n \in 1..Len(Env.names) :
                   Env.names[n] = last.inv0[NthAvailable(n)].model

C10_Witness ==
    /\ last.tool = "list_available_devices"
    /\ ~Env.isError
    /\ Len(Env.names) >= 1
    /\ \E i \in 1..Len(last.inv0) : ~last.inv0[i].available

\* the screenshot result the remote service returned, if it returned one
ShotResults ==
    {Sent[k].reply.result : k \in Answered("capture_device_screenshot")}

\* C11: for a screenshot result with non-empty filename f and dir d the
\* capture tool succeeds and reports exactly the URL
\* https://device.pcloudy.com/recent/d/f; with either of them missing or
\* empty it fails and reports no URL.
C11_ScreenshotUrl ==
    last.tool = "capture_device_screenshot" =>
        \A p \in ShotResults :
            IF Truthy(p.filename) /\ Truthy(p.dir)
            THEN /\ ~last.out.raised
                 /\ ~Env.isError
                 /\ Env.fmt = "Screenshot captured successfully: {}"
                 /\ Env.msg = "https://device.pcloudy.com/recent/" \o p.dir
                                 \o "/" \o p.filename
                 /\ p.filename = "shot.png" /\ p.dir = "abc123" =>
                       Env.msg = "https://device.pcloudy.com/recent/abc123/shot.png"
            ELSE /\ ~last.out.raised
                 /\ Env = Envelope(TRUE, "Failed to get screenshot file URL",
                                   "", <<>>)

C11_Witness ==
    /\ last.tool = "capture_device_screenshot"
    /\ ShotResults = {[filename |-> "shot.png", dir |-> "abc123"]}
    /\ Env.msg = "https://device.pcloudy.com/recent/abc123/shot.png"

\* The failing case of C11 happens: a result with an empty dir.
C11_MissingFieldHappens ==
    /\ last.tool = "capture_device_screenshot"
    /\ ShotResults = {[filename |-> "shot.png", dir |-> ""]}
    /\ Env.isError

\* C12: no upload request is sent for a file whose base name is in the cloud
\* drive when the call is made, whether the listing request succeeded, failed
\* or came back unparsable.
C12_UploadsNeverDuplicated ==
    (last.tool = "upload_file" /\ last.file_name \in last.drive0) =>
        To("upload_file") = {}

\* C12 with the listing answered: then the file in the drive is not sent.
C12_NoDuplicateWhenListingAnswered ==
    (/\ last.tool = "upload_file"
     /\ last.file_name \in last.drive0
     /\ \E i \in Answered("content") : Sent[i].reply.result.isdict) =>
        To("upload_file") = {}

\* C14: the client's rid changes only on a successful booking: after a
\* book_device_by_name call that returned an error it is what it was before,
\* after one that returned success it is the rid the remote booking
\* returned, and no other tool changes it.
C14_RidChangesOnlyOnSuccess ==
    last.tool # "none" =>
        IF last.tool = "book_device_by_name" /\ ~Env.isError
        THEN \E k \in Answered("book_device") :
                 /\ Truthy(Sent[k].reply.result.rid)
                 /\ rid = Sent[k].reply.result.rid
        ELSE rid = last.rid0

\* C14 without the booking that came back with no rid: every other call
\* leaves the rid as the claim says.
C14_RidKeptUnlessBookingAnswered ==
    (last.tool # "none" /\ rid # last.rid0) =>
        /\ last.tool = "book_device_by_name"
        /\ \E k \in Answered("book_device") : rid = Sent[k].reply.result.rid

\* the calls whose handler has started and not returned
Started == {c \in Calls : tasks[c].pc \in Blocked}
Pending == {c \in Calls : tasks[c].pc = "pending"}
Returned == {c \in Calls : tasks[c].pc = "done"}
Booked == {c \in Returned : ~tasks[c].out.isError}

\* the requests and replies on the wire
AccessSent ==
    {i \in DOMAIN wire : wire[i].ev = "send" /\ wire[i].endpoint = "access"}
AccessReply(i) ==
    {k \in DOMAIN wire : /\ k > i
                     /\ wire[k].call = wire[i].call
                     /\ wire[k].ev = "recv"
                     /\ wire[k].endpoint = "access"}

====
